---- MODULE Spec2Model ----
(***************************************************************************)
(* Model of app.py: the Notion row fetch, the per-name text grouping, the  *)
(* streamed completion sink, the JSON extractor, the 3-D graph builder and *)
(* the per-name analysis cache of the session.                             *)
(*                                                                         *)
(* Text is a sequence of one-character strings.  None and "" are both the  *)
(* empty sequence wherever the code only tests truthiness.                 *)
(***************************************************************************)
EXTENDS Integers, Sequences, FiniteSets, TLC

VARIABLES
    \* parse_json_safely: the argument, the position in the function, the
    \* local text, the returned value
    ptext, ppc, pwork, presult,
    \* stream_generate_text: the fragment source (its fragments and how it
    \* ends), the position, the fragments consumed, buffer, the title and code
    \* placeholders, every value handed to code_ph.code, the returned value
    sfrags, sends, spc, sidx, buffer, title_ph, code_ph, shown, sret,
    \* grouping: df, the position, grouped, the expanders rendered
    df_rows, apc, grouped, expanders,
    \* plot_ontology_3d: the relationship list, the position, the loop index,
    \* the graph, the st.info report, the layout calls, the chart render
    edges, kpc, kidx, G_nodes, G_edges, info, layoutCalls, charted,
    \* fetch_notion_rows: the database (a page per cursor), the position,
    \* cursor, rows, the cursors sent, the responses received
    source, fpc, cursor, rows, requests, responses,
    \* the session: the cache st.session_state.analysis, the position in the
    \* button handler, the name clicked, whether a model is configured, whether
    \* the name was cached at the click, the ontology of the running analysis,
    \* what the handler did, its report, its completion calls, what it displayed,
    \* and the names whose analysis has completed
    analysis, pc, name, modelOk, cachedAtClick, ontology, events, report,
    clickCalls, displayed, completed

parseVars == <<ptext, ppc, pwork, presult>>
streamVars == <<sfrags, sends, spc, sidx, buffer, title_ph, code_ph, shown, sret>>
groupVars == <<df_rows, apc, grouped, expanders>>
plotVars == <<edges, kpc, kidx, G_nodes, G_edges, info, layoutCalls, charted>>
fetchVars == <<source, fpc, cursor, rows, requests, responses>>
sessionVars == <<analysis, pc, name, modelOk, cachedAtClick, ontology, events, report,
                 clickCalls, displayed, completed>>
vars == <<parseVars, streamVars, groupVars, plotVars, fetchVars, sessionVars>>

\* ------------------------------------------------------------------------
\* Bounds
\* ------------------------------------------------------------------------
MaxTextLen == 3
MaxStrLen == 3

\* ------------------------------------------------------------------------
\* Characters and string helpers
\* ------------------------------------------------------------------------
QUOTE == "\""
NL == "\n"
\* the backtick character (the lexer of TLA+ does not take it inside a string)
BT == "BT"
WS == {" ", NL}
Digits == {"1", "2"}

RECURSIVE SeqsUpTo(_, _)
SeqsUpTo(S, n) ==
    IF n = 0 THEN {<<>>}
    ELSE LET shorter == SeqsUpTo(S, n - 1)
         IN shorter \cup {Append(s, c) : s \in shorter, c \in S}

\* str.strip(): drop leading and trailing whitespace
RECURSIVE LStrip(_)
LStrip(s) == IF s # <<>> /\ Head(s) \in WS THEN LStrip(Tail(s)) ELSE s

RECURSIVE RStrip(_)
RStrip(s) ==
    IF s # <<>> /\ s[Len(s)] \in WS THEN RStrip(SubSeq(s, 1, Len(s) - 1)) ELSE s

Strip(s) == RStrip(LStrip(s))

\* s has pat at index i
MatchAt(s, pat, i) ==
    /\ i >= 1
    /\ i + Len(pat) - 1 <= Len(s)
    /\ SubSeq(s, i, i + Len(pat) - 1) = pat

\* smallest index >= from where pat occurs in s, 0 when there is none
FindFrom(s, pat, from) ==
    LET hits == {i \in from..Len(s) : MatchAt(s, pat, i)}
    IN IF hits = {} THEN 0 ELSE CHOOSE i \in hits : \A k \in hits : i <= k

\* ------------------------------------------------------------------------
\* json.loads (strict) on the alphabet of the model: objects, arrays,
\* strings without escapes, integers of the digits 1 and 2, null.
\* ------------------------------------------------------------------------
JNull == [kind |-> "null", text |-> <<>>, items |-> <<>>, members |-> <<>>]
JStr(t) == [kind |-> "str", text |-> t, items |-> <<>>, members |-> <<>>]
JNum(t) == [kind |-> "num", text |-> t, items |-> <<>>, members |-> <<>>]
JArr(xs) == [kind |-> "arr", text |-> <<>>, items |-> xs, members |-> <<>>]
JObj(ms) == [kind |-> "obj", text |-> <<>>, items |-> <<>>, members |-> ms]
EmptyMapping == JObj(<<>>)

ParseFail == [ok |-> FALSE, pos |-> 0, val |-> JNull]
ParseOk(p, v) == [ok |-> TRUE, pos |-> p, val |-> v]

RECURSIVE SkipWS(_, _)
SkipWS(s, i) == IF i <= Len(s) /\ s[i] \in WS THEN SkipWS(s, i + 1) ELSE i

RECURSIVE DigitsEnd(_, _)
DigitsEnd(s, i) == IF i <= Len(s) /\ s[i] \in Digits THEN DigitsEnd(s, i + 1) ELSE i

\* s[i] is the opening quote; a raw newline inside a string is rejected
ParseString(s, i) ==
    LET stops == {j \in (i + 1)..Len(s) : s[j] \in {QUOTE, NL}}
    IN IF stops = {} THEN ParseFail
       ELSE LET j == CHOOSE x \in stops : \A y \in stops : x <= y
            IN IF s[j] = NL THEN ParseFail
               ELSE ParseOk(j + 1, JStr(SubSeq(s, i + 1, j - 1)))

\* dict(pairs): a repeated key keeps its first position and its last value
PutMember(ms, k, v) ==
    IF \E i \in 1..Len(ms) : ms[i].key = k
    THEN [i \in 1..Len(ms) |-> IF ms[i].key = k THEN [key |-> k, val |-> v] ELSE ms[i]]
    ELSE Append(ms, [key |-> k, val |-> v])

RECURSIVE ParseValue(_, _)
RECURSIVE ParseMembers(_, _, _)
RECURSIVE ParseElements(_, _, _)

ParseValue(s, i) ==
    IF i > Len(s) THEN ParseFail
    ELSE IF s[i] = QUOTE THEN ParseString(s, i)
    ELSE IF s[i] = "{" THEN
        LET j == SkipWS(s, i + 1)
        IN IF j <= Len(s) /\ s[j] = "}" THEN ParseOk(j + 1, JObj(<<>>))
           ELSE ParseMembers(s, j, <<>>)
    ELSE IF s[i] = "[" THEN
        LET j == SkipWS(s, i + 1)
        IN IF j <= Len(s) /\ s[j] = "]" THEN ParseOk(j + 1, JArr(<<>>))
           ELSE ParseElements(s, j, <<>>)
    ELSE IF s[i] \in Digits THEN
        LET e == DigitsEnd(s, i) IN ParseOk(e, JNum(SubSeq(s, i, e - 1)))
    ELSE IF MatchAt(s, <<"n", "u", "l", "l">>, i) THEN ParseOk(i + 4, JNull)
    ELSE ParseFail

ParseMembers(s, i, acc) ==
    IF i > Len(s) \/ s[i] # QUOTE THEN ParseFail
    ELSE LET k == ParseString(s, i)
         IN IF ~k.ok THEN ParseFail
            ELSE LET c == SkipWS(s, k.pos)
                 IN IF c > Len(s) \/ s[c] # ":" THEN ParseFail
                    ELSE LET v == ParseValue(s, SkipWS(s, c + 1))
                         IN IF ~v.ok THEN ParseFail
                            ELSE LET acc2 == PutMember(acc, k.val.text, v.val)
                                     e == SkipWS(s, v.pos)
                                 IN IF e > Len(s) THEN ParseFail
                                    ELSE IF s[e] = "}" THEN ParseOk(e + 1, JObj(acc2))
                                    ELSE IF s[e] = ","
                                         THEN ParseMembers(s, SkipWS(s, e + 1), acc2)
                                    ELSE ParseFail

ParseElements(s, i, acc) ==
    LET v == ParseValue(s, i)
    IN IF ~v.ok THEN ParseFail
       ELSE LET acc2 == Append(acc, v.val)
                e == SkipWS(s, v.pos)
            IN IF e > Len(s) THEN ParseFail
               ELSE IF s[e] = "]" THEN ParseOk(e + 1, JArr(acc2))
               ELSE IF s[e] = "," THEN ParseElements(s, SkipWS(s, e + 1), acc2)
               ELSE ParseFail

\* [ok, val]: ok is FALSE where json.loads raises
json_loads(s) ==
    LET v == ParseValue(s, SkipWS(s, 1))
    IN IF v.ok /\ SkipWS(s, v.pos) > Len(s)
       THEN [ok |-> TRUE, val |-> v.val]
       ELSE [ok |-> FALSE, val |-> JNull]

\* Python truthiness of a parsed value
Truthy(v) ==
    IF v.kind = "obj" THEN v.members # <<>>
    ELSE IF v.kind = "arr" THEN v.items # <<>>
    ELSE IF v.kind = "str" THEN v.text # <<>>
    ELSE IF v.kind = "num" THEN TRUE
    ELSE FALSE

\* ------------------------------------------------------------------------
\* parse_json_safely
\* ------------------------------------------------------------------------
FenceOpen == <<BT, BT, BT, "j", "s", "o", "n">>
FenceClose == <<BT, BT, BT>>

\* re.search of the json fence pattern with re.S: group(1).strip() on a match
FenceStep(text) ==
    LET o == FindFrom(text, FenceOpen, 1)
        c == IF o = 0 THEN 0 ELSE FindFrom(text, FenceClose, o + Len(FenceOpen))
    IN IF o # 0 /\ c # 0
       THEN Strip(SubSeq(text, o + Len(FenceOpen), c - 1))
       ELSE text

\* re.search(r"\{.*\}", text, re.S): first "{" to the last "}" after it
BraceStep(text) ==
    LET opens == {i \in 1..Len(text) : text[i] = "{"}
        o == IF opens = {} THEN 0 ELSE CHOOSE i \in opens : \A k \in opens : i <= k
        closes == {i \in 1..Len(text) : text[i] = "}" /\ i > o}
        c == IF closes = {} THEN 0 ELSE CHOOSE i \in closes : \A k \in closes : i >= k
    IN IF o # 0 /\ c # 0 THEN SubSeq(text, o, c) ELSE text

\* try: return json.loads(text) / except Exception: return {}
LoadsStep(text) ==
    LET r == json_loads(text) IN IF r.ok THEN r.val ELSE EmptyMapping

parse_json_safely(text) ==
    IF text = <<>> THEN EmptyMapping
    ELSE LoadsStep(BraceStep(FenceStep(text)))

\* ------------------------------------------------------------------------
\* Inputs of the extractor
\* ------------------------------------------------------------------------
ShortAlphabet == {"{", "}", "[", "]", QUOTE, "1"}
ValueChars == {BT, "{", "}", "a"}

\* well-formed JSON objects {"a":"<value>"} with backticks and braces in the value
JsonObjects ==
    {<<"{", QUOTE, "a", QUOTE, ":", QUOTE>> \o v \o <<QUOTE, "}">> :
        v \in SeqsUpTo(ValueChars, MaxStrLen)}

Prose == {<<>>, <<"a", " ">>}

wrap_in_fence(pre, j, post) == pre \o FenceOpen \o <<NL>> \o j \o <<NL>> \o FenceClose \o post

CuratedTexts ==
    { <<"n", "u", "l", "l">>,
      <<"[", "1", ",", "2", "]">>,
      <<"a", " ", "{", QUOTE, "a", QUOTE, ":", "1", "}", " ", "a">>,
      <<"{", QUOTE, "a", QUOTE, ":", "1", ",", QUOTE, "a", QUOTE, ":", "2", "}">>,
      <<"a", " ", "{", "}", " ", "}">>,
      FenceOpen \o <<" ", "[", "1", "]", " ">> \o FenceClose }

ParseInputs ==
    SeqsUpTo(ShortAlphabet, MaxTextLen)
        \cup CuratedTexts
        \cup {wrap_in_fence(pre, j, post) : pre \in Prose, j \in JsonObjects, post \in Prose}

\* ------------------------------------------------------------------------
\* stream_generate_text: the fragment loop
\* ------------------------------------------------------------------------
MaxFrags == 3

\* a fragment of the response; has is FALSE when it carries no text attribute
NoText == [has |-> FALSE, text |-> <<>>]
Frag(t) == [has |-> TRUE, text |-> t]
Fragments == {NoText, Frag(<<>>), Frag(<<"a">>), Frag(<<"b", "1">>)}

\* t = getattr(chunk, "text", "") or ""
ChunkText(chunk) == IF chunk.has THEN chunk.text ELSE <<>>

\* the new text put before the buffer instead of after it
AccumulateFront(buf, t) == t \o buf

\* buffer += t
Accumulate(buf, t) == buf \o t

\* the buffer after the loop has consumed frs
RECURSIVE StreamBuffer(_, _)
StreamBuffer(buf, frs) ==
    IF frs = <<>> THEN buf
    ELSE LET t == ChunkText(Head(frs))
         IN StreamBuffer(IF t = <<>> THEN buf ELSE Accumulate(buf, t), Tail(frs))

\* return buffer: the same statement after a completed and after a failed stream
stream_generate_text(frs, ending) == StreamBuffer(<<>>, frs)

Unset == [kind |-> "unset", text |-> <<>>]
Code(t) == [kind |-> "code", text |-> t]
ErrorText == [kind |-> "error", text |-> <<>>]

\* ------------------------------------------------------------------------
\* Grouping by name
\* ------------------------------------------------------------------------
MaxRecords == 3

CodePoint(c) ==
    IF c = " " THEN 32 ELSE IF c = "A" THEN 65 ELSE IF c = "B" THEN 66
    ELSE IF c = "a" THEN 97 ELSE IF c = "b" THEN 98 ELSE 120

\* str < str of Python
RECURSIVE StrLess(_, _)
StrLess(x, y) ==
    IF y = <<>> THEN FALSE
    ELSE IF x = <<>> THEN TRUE
    ELSE IF Head(x) # Head(y) THEN CodePoint(Head(x)) < CodePoint(Head(y))
    ELSE StrLess(Tail(x), Tail(y))

RECURSIVE SortedKeys(_)
SortedKeys(S) ==
    IF S = {} THEN <<>>
    ELSE LET m == CHOOSE x \in S : \A y \in S : x = y \/ StrLess(x, y)
         IN <<m>> \o SortedKeys(S \ {m})

\* the column of texts of one group, in row order
RECURSIVE GroupTexts(_, _)
GroupTexts(df, k) ==
    IF df = <<>> THEN <<>>
    ELSE (IF Head(df).name = k THEN <<Head(df).text>> ELSE <<>>) \o GroupTexts(Tail(df), k)

\* the join that keeps the empty texts as blank segments
RECURSIVE JoinTextsKeepBlank(_)
JoinTextsKeepBlank(s) ==
    IF s = <<>> THEN <<>>
    ELSE IF Len(s) = 1 THEN s[1]
    ELSE s[1] \o <<NL, NL>> \o JoinTextsKeepBlank(Tail(s))

\* "\n\n".join([x for x in s if x])
RECURSIVE JoinTexts(_)
JoinTexts(s) ==
    LET kept == SelectSeq(s, LAMBDA x : x # <<>>)
    IN IF kept = <<>> THEN <<>>
       ELSE IF Len(kept) = 1 THEN kept[1]
       ELSE kept[1] \o <<NL, NL>> \o JoinTexts(Tail(kept))

\* df.groupby(name)[text].apply(join).reset_index(): groupby sorts the keys
groupby(df) ==
    LET keys == SortedKeys({df[i].name : i \in 1..Len(df)})
    IN [i \in 1..Len(keys) |-> [name |-> keys[i], text |-> JoinTexts(GroupTexts(df, keys[i]))]]

PersonNames == {<<"b">>, <<"a">>, <<"a", "b">>}
PersonTexts == {<<>>, <<"x">>, <<"a">>}
PersonRecords == [name : PersonNames, text : PersonTexts]

\* ------------------------------------------------------------------------
\* plot_ontology_3d: the graph
\* ------------------------------------------------------------------------
MaxRels == 2

Terms == {<<>>, <<" ">>, <<"A">>, <<" ", "B">>}
Labels == {<<>>, <<"x">>}
Relationships == [source : Terms, target : Terms, relation : Labels]

\* if s and t: G.add_edge(s, t, label=lbl)
EdgeAdmitted(rel) == rel.source # <<>> /\ rel.target # <<>>

\* G.add_edge on an undirected graph: both ends become nodes, the label of an
\* existing edge between them is overwritten
AddEdgeNodes(nodes, rel) == nodes \cup {rel.source, rel.target}
AddEdgeEdges(es, rel) ==
    {e \in es : e.ends # {rel.source, rel.target}}
        \cup {[ends |-> {rel.source, rel.target}, label |-> rel.relation]}

\* ------------------------------------------------------------------------
\* fetch_notion_rows: rows of a page
\* ------------------------------------------------------------------------
MaxCursor == 2
MaxRows == 1
MaxRequests == 4

\* the placeholder name of a row without a title
Nameless == <<"N", "N">>

Item(p, c) == [plain_text |-> p, content |-> c]
RawRows ==
    { [title |-> <<Item(<<"a">>, <<>>)>>, rich |-> <<Item(<<>>, <<"x">>)>>],
      [title |-> <<>>, rich |-> <<Item(<<"b">>, <<"x">>), Item(<<"a">>, <<>>)>>] }

\* items[0].get("plain_text") or items[0].get("text", {}).get("content", "")
FirstPlainText(items) ==
    IF items = <<>> THEN <<>>
    ELSE IF items[1].plain_text # <<>> THEN items[1].plain_text
    ELSE items[1].content

\* rows.append({name: name or placeholder, text: text or ""})
ExtractRow(row) ==
    LET nm == FirstPlainText(row.title)
    IN [name |-> IF nm # <<>> THEN nm ELSE Nameless, text |-> FirstPlainText(row.rich)]

RECURSIVE AppendRows(_, _)
AppendRows(acc, results) ==
    IF results = <<>> THEN acc
    ELSE AppendRows(Append(acc, ExtractRow(Head(results))), Tail(results))

\* cursor 0 is None; a response without further pages carries no next cursor
Cursors == 0..MaxCursor
Pages ==
    {p \in [results : SeqsUpTo(RawRows, MaxRows), has_more : BOOLEAN, next_cursor : Cursors] :
        ~p.has_more => p.next_cursor = 0}

\* notion.databases.query(database_id, start_cursor=cursor) if cursor else
\* notion.databases.query(database_id)
Query(src, cur) == IF cur # 0 THEN src[cur] ELSE src[0]

\* the cursor of the response dropped
NextCursorNone(resp) == 0

\* if resp.get("has_more"): cursor = resp.get("next_cursor")
NextCursor(resp) == resp.next_cursor

\* ------------------------------------------------------------------------
\* The analysis of one name: plot, prompt and the completion responses
\* ------------------------------------------------------------------------
KeyRelationships == <<"r", "e", "l", "a", "t", "i", "o", "n", "s", "h", "i", "p", "s">>
KeySource == <<"s", "o", "u", "r", "c", "e">>
KeyTarget == <<"t", "a", "r", "g", "e", "t">>
KeyRelation == <<"r", "e", "l", "a", "t", "i", "o", "n">>
KeyThemes == <<"t", "h", "e", "m", "e", "s">>
KeyKeywords == <<"k", "e", "y", "w", "o", "r", "d", "s">>

HasKey(v, k) == v.kind = "obj" /\ \E i \in 1..Len(v.members) : v.members[i].key = k

\* dict.get(k): None for a missing key
Get(v, k) ==
    IF HasKey(v, k)
    THEN v.members[CHOOSE i \in 1..Len(v.members) : v.members[i].key = k].val
    ELSE JNull

\* the text of a string value; None and "" alike are the empty text
TextOf(v) == IF v.kind = "str" THEN v.text ELSE <<>>

\* rel.get("source"), rel.get("target"), rel.get("relation", "")
RelOf(item) ==
    [source |-> TextOf(Get(item, KeySource)),
     target |-> TextOf(Get(item, KeyTarget)),
     relation |-> TextOf(Get(item, KeyRelation))]

\* ontology.get("relationships", []) or []
RelsOf(onto) ==
    LET v == Get(onto, KeyRelationships)
    IN IF v.kind = "arr" THEN [i \in 1..Len(v.items) |-> RelOf(v.items[i])] ELSE <<>>

RECURSIVE BuildNodes(_, _)
BuildNodes(nodes, rels) ==
    IF rels = <<>> THEN nodes
    ELSE BuildNodes(IF EdgeAdmitted(Head(rels)) THEN AddEdgeNodes(nodes, Head(rels)) ELSE nodes,
                    Tail(rels))

\* what plot_ontology_3d does for a relationship list
plot_ontology_3d(rels) ==
    IF rels = <<>>
    THEN [info |-> TRUE, nodes |-> {}, layout |-> FALSE, chart |-> FALSE]
    ELSE [info |-> FALSE, nodes |-> BuildNodes({}, rels), layout |-> TRUE, chart |-> TRUE]

\* the bullet of one relationship in build_final_prompt, stripped
RelLine(rel) ==
    [s |-> Strip(rel.source), t |-> Strip(rel.target), rel |-> Strip(rel.relation)]

\* rel_lines: if s and t
RelLines(rels) ==
    SelectSeq([i \in 1..Len(rels) |-> RelLine(rels[i])], LAMBDA l : l.s # <<>> /\ l.t # <<>>)

\* ", ".join(list of strings)
RECURSIVE JoinComma(_)
JoinComma(vs) ==
    IF vs = <<>> THEN <<>>
    ELSE IF Len(vs) = 1 THEN TextOf(vs[1])
    ELSE TextOf(vs[1]) \o <<",", " ">> \o JoinComma(Tail(vs))

\* the parts the template of build_final_prompt is filled with
build_final_prompt(nm, onto, summary) ==
    [name |-> nm,
     themes |-> JoinComma(Get(onto, KeyThemes).items),
     keywords |-> JoinComma(Get(onto, KeyKeywords).items),
     bullets |-> RelLines(RelsOf(onto)),
     summary |-> summary]

NoPrompt == [name |-> <<>>, themes |-> <<>>, keywords |-> <<>>, bullets |-> <<>>, summary |-> <<>>]

\* an absent cache entry
NoEntry == [ontology |-> EmptyMapping, summary |-> <<>>, final_prompt |-> NoPrompt]

Str(t) == <<QUOTE>> \o t \o <<QUOTE>>
RelJson(s, t) ==
    <<"{">> \o Str(KeySource) \o <<":">> \o Str(s) \o <<",">>
        \o Str(KeyTarget) \o <<":">> \o Str(t) \o <<"}">>
OntologyJson(rels) ==
    <<"{">> \o Str(KeyThemes) \o <<":", "[">> \o Str(<<"a">>) \o <<"]", ",">>
        \o Str(KeyRelationships) \o <<":", "[">> \o rels \o <<"]", "}">>

GoodOntology == OntologyJson(RelJson(<<"A">>, <<"B">>))
BlankOntology == OntologyJson(RelJson(<<" ">>, <<>>))
BareOntology == <<"{">> \o Str(KeyThemes) \o <<":", "[", "]", "}">>

Response(frs, e) == [frags |-> frs, ending |-> e]

\* what the completion service may stream for the ontology request
OntologyResponses ==
    { Response(<<Frag(GoodOntology)>>, "ok"),
      Response(<<Frag(SubSeq(GoodOntology, 1, 5)), NoText,
                 Frag(SubSeq(GoodOntology, 6, Len(GoodOntology)))>>, "ok"),
      Response(<<Frag(FenceOpen \o <<NL>> \o BlankOntology \o <<NL>> \o FenceClose)>>, "ok"),
      Response(<<Frag(BareOntology)>>, "ok"),
      Response(<<Frag(GoodOntology)>>, "error"),
      Response(<<Frag(SubSeq(GoodOntology, 1, 5))>>, "error"),
      Response(<<Frag(<<"a", " ", "a">>)>>, "ok"),
      Response(<<Frag(<<"[", "1", "]">>)>>, "ok"),
      Response(<<>>, "ok"),
      Response(<<>>, "error") }

\* and for the summary request
SummaryResponses ==
    { Response(<<Frag(<<" ", "a">>), Frag(<<"b", NL>>)>>, "ok"),
      Response(<<>>, "ok"),
      Response(<<Frag(<<"a">>)>>, "error"),
      Response(<<>>, "error") }

SessionNames == {<<"K">>, <<"L">>}

\* the cache never consulted
CacheHitNever(cache, nm) == FALSE

\* name in st.session_state.analysis
CacheHit(cache, nm) == nm \in DOMAIN cache

\* st.session_state.analysis[name] = {...}
CacheWrite(cache, nm, entry) ==
    [k \in DOMAIN cache \cup {nm} |-> IF k = nm THEN entry ELSE cache[k]]

\* ------------------------------------------------------------------------
\* The parts at rest
\* ------------------------------------------------------------------------
ParseIdle ==
    /\ ptext = <<>>
    /\ ppc = "idle"
    /\ pwork = <<>>
    /\ presult = EmptyMapping

StreamIdle ==
    /\ sfrags = <<>>
    /\ sends = "ok"
    /\ spc = "idle"
    /\ sidx = 0
    /\ buffer = <<>>
    /\ title_ph = "unset"
    /\ code_ph = Unset
    /\ shown = <<>>
    /\ sret = <<>>

GroupIdle ==
    /\ df_rows = <<>>
    /\ apc = "idle"
    /\ grouped = <<>>
    /\ expanders = <<>>

PlotIdle ==
    /\ edges = <<>>
    /\ kpc = "idle"
    /\ kidx = 0
    /\ G_nodes = {}
    /\ G_edges = {}
    /\ info = FALSE
    /\ layoutCalls = 0
    /\ charted = FALSE

FetchIdle ==
    /\ source = <<>>
    /\ fpc = "idle"
    /\ cursor = 0
    /\ rows = <<>>
    /\ requests = <<>>
    /\ responses = <<>>

SessionIdle ==
    /\ analysis = <<>>
    /\ pc = "off"
    /\ name = <<>>
    /\ modelOk = FALSE
    /\ cachedAtClick = FALSE
    /\ ontology = EmptyMapping
    /\ events = {}
    /\ report = "none"
    /\ clickCalls = 0
    /\ displayed = NoEntry
    /\ completed = {}

notParse == <<streamVars, groupVars, plotVars, fetchVars, sessionVars>>
notStream == <<parseVars, groupVars, plotVars, fetchVars, sessionVars>>
notGroup == <<parseVars, streamVars, plotVars, fetchVars, sessionVars>>
notPlot == <<parseVars, streamVars, groupVars, fetchVars, sessionVars>>
notFetch == <<parseVars, streamVars, groupVars, plotVars, sessionVars>>
notSession == <<parseVars, streamVars, groupVars, plotVars, fetchVars>>

\* ------------------------------------------------------------------------
\* The extractor as a state machine
\* ------------------------------------------------------------------------
InitParse ==
    /\ ptext \in ParseInputs
    /\ ppc = "start"
    /\ pwork = ptext
    /\ presult = EmptyMapping
    /\ StreamIdle /\ GroupIdle /\ PlotIdle /\ FetchIdle /\ SessionIdle

\* if not text: return {}
ParseCheckEmpty ==
    /\ ppc = "start"
    /\ ppc' = (IF ptext = <<>> THEN "done" ELSE "fence")
    /\ presult' = (IF ptext = <<>> THEN EmptyMapping ELSE presult)
    /\ UNCHANGED <<ptext, pwork, notParse>>

ParseFence ==
    /\ ppc = "fence"
    /\ pwork' = FenceStep(pwork)
    /\ ppc' = "brace"
    /\ UNCHANGED <<ptext, presult, notParse>>

ParseBrace ==
    /\ ppc = "brace"
    /\ pwork' = BraceStep(pwork)
    /\ ppc' = "loads"
    /\ UNCHANGED <<ptext, presult, notParse>>

ParseLoads ==
    /\ ppc = "loads"
    /\ presult' = LoadsStep(pwork)
    /\ ppc' = "done"
    /\ UNCHANGED <<ptext, pwork, notParse>>

NextParse == ParseCheckEmpty \/ ParseFence \/ ParseBrace \/ ParseLoads

SpecParse == InitParse /\ [][NextParse]_vars

\* ------------------------------------------------------------------------
\* stream_generate_text as a state machine
\* ------------------------------------------------------------------------
InitStream ==
    /\ sfrags \in SeqsUpTo(Fragments, MaxFrags)
    /\ sends \in {"ok", "error"}
    /\ spc = "loop"
    /\ sidx = 0
    /\ buffer = <<>>
    /\ title_ph = "generating"
    /\ code_ph = Unset
    /\ shown = <<>>
    /\ sret = <<>>
    /\ ParseIdle /\ GroupIdle /\ PlotIdle /\ FetchIdle /\ SessionIdle

\* one pass of the for loop over a fragment with text
StreamChunk ==
    /\ spc = "loop"
    /\ sidx < Len(sfrags)
    /\ ChunkText(sfrags[sidx + 1]) # <<>>
    /\ sidx' = sidx + 1
    /\ buffer' = Accumulate(buffer, ChunkText(sfrags[sidx + 1]))
    /\ code_ph' = Code(buffer')
    /\ shown' = Append(shown, buffer')
    /\ UNCHANGED <<sfrags, sends, spc, title_ph, sret, notStream>>

\* if not t: continue
StreamSkip ==
    /\ spc = "loop"
    /\ sidx < Len(sfrags)
    /\ ChunkText(sfrags[sidx + 1]) = <<>>
    /\ sidx' = sidx + 1
    /\ UNCHANGED <<sfrags, sends, spc, buffer, title_ph, code_ph, shown, sret, notStream>>

\* the iterator is exhausted: the completed title, return buffer
StreamComplete ==
    /\ spc = "loop"
    /\ sidx = Len(sfrags)
    /\ sends = "ok"
    /\ title_ph' = "done"
    /\ sret' = buffer
    /\ spc' = "returned"
    /\ UNCHANGED <<sfrags, sends, sidx, buffer, code_ph, shown, notStream>>

\* except Exception: the error title and text, return buffer
StreamError ==
    /\ spc = "loop"
    /\ sidx = Len(sfrags)
    /\ sends = "error"
    /\ title_ph' = "error"
    /\ code_ph' = ErrorText
    /\ sret' = buffer
    /\ spc' = "returned"
    /\ UNCHANGED <<sfrags, sends, sidx, buffer, shown, notStream>>

NextStream == StreamChunk \/ StreamSkip \/ StreamComplete \/ StreamError

SpecStream == InitStream /\ [][NextStream]_vars

\* ------------------------------------------------------------------------
\* Grouping and the per-name loop
\* ------------------------------------------------------------------------
InitGroup ==
    /\ df_rows \in SeqsUpTo(PersonRecords, MaxRecords)
    /\ apc = "start"
    /\ grouped = <<>>
    /\ expanders = <<>>
    /\ ParseIdle /\ StreamIdle /\ PlotIdle /\ FetchIdle /\ SessionIdle

\* if df is not None and not df.empty: grouped = df.groupby(...)
GroupBy ==
    /\ apc = "start"
    /\ df_rows # <<>>
    /\ grouped' = groupby(df_rows)
    /\ apc' = "iterate"
    /\ UNCHANGED <<df_rows, expanders, notGroup>>

\* else: st.info(...)
NothingLoaded ==
    /\ apc = "start"
    /\ df_rows = <<>>
    /\ apc' = "done"
    /\ UNCHANGED <<df_rows, grouped, expanders, notGroup>>

\* for idx, r in grouped.iterrows(): one expander per row
NextExpander ==
    /\ apc = "iterate"
    /\ Len(expanders) < Len(grouped)
    /\ expanders' = Append(expanders, grouped[Len(expanders) + 1])
    /\ UNCHANGED <<df_rows, apc, grouped, notGroup>>

EndExpanders ==
    /\ apc = "iterate"
    /\ Len(expanders) = Len(grouped)
    /\ apc' = "done"
    /\ UNCHANGED <<df_rows, grouped, expanders, notGroup>>

NextGroup == GroupBy \/ NothingLoaded \/ NextExpander \/ EndExpanders

SpecGroup == InitGroup /\ [][NextGroup]_vars

\* ------------------------------------------------------------------------
\* plot_ontology_3d as a state machine
\* ------------------------------------------------------------------------
InitPlot ==
    /\ edges \in SeqsUpTo(Relationships, MaxRels)
    /\ kpc = "start"
    /\ kidx = 0
    /\ G_nodes = {}
    /\ G_edges = {}
    /\ info = FALSE
    /\ layoutCalls = 0
    /\ charted = FALSE
    /\ ParseIdle /\ StreamIdle /\ GroupIdle /\ FetchIdle /\ SessionIdle

\* if not edges: st.info(...); return
PlotNoEdges ==
    /\ kpc = "start"
    /\ edges = <<>>
    /\ info' = TRUE
    /\ kpc' = "done"
    /\ UNCHANGED <<edges, kidx, G_nodes, G_edges, layoutCalls, charted, notPlot>>

\* G = nx.Graph()
PlotNewGraph ==
    /\ kpc = "start"
    /\ edges # <<>>
    /\ kpc' = "build"
    /\ UNCHANGED <<edges, kidx, G_nodes, G_edges, info, layoutCalls, charted, notPlot>>

\* one pass of the loop over edges
PlotAddEdge ==
    /\ kpc = "build"
    /\ kidx < Len(edges)
    /\ kidx' = kidx + 1
    /\ LET rel == edges[kidx + 1]
       IN IF EdgeAdmitted(rel)
          THEN /\ G_nodes' = AddEdgeNodes(G_nodes, rel)
               /\ G_edges' = AddEdgeEdges(G_edges, rel)
          ELSE UNCHANGED <<G_nodes, G_edges>>
    /\ UNCHANGED <<edges, kpc, info, layoutCalls, charted, notPlot>>

\* pos = nx.spring_layout(G, dim=3, seed=42) ... st.plotly_chart(fig)
PlotLayout ==
    /\ kpc = "build"
    /\ kidx = Len(edges)
    /\ layoutCalls' = layoutCalls + 1
    /\ charted' = TRUE
    /\ kpc' = "done"
    /\ UNCHANGED <<edges, kidx, G_nodes, G_edges, info, notPlot>>

NextPlot == PlotNoEdges \/ PlotNewGraph \/ PlotAddEdge \/ PlotLayout

SpecPlot == InitPlot /\ [][NextPlot]_vars

\* ------------------------------------------------------------------------
\* fetch_notion_rows as a state machine
\* ------------------------------------------------------------------------
InitFetch ==
    /\ source \in [Cursors -> Pages]
    /\ fpc = "loop"
    /\ cursor = 0
    /\ rows = <<>>
    /\ requests = <<>>
    /\ responses = <<>>
    /\ ParseIdle /\ StreamIdle /\ GroupIdle /\ PlotIdle /\ SessionIdle

\* one pass of the while loop: query, append the rows, follow has_more
FetchPage ==
    /\ fpc = "loop"
    /\ Len(requests) < MaxRequests
    /\ LET resp == Query(source, cursor)
       IN /\ requests' = Append(requests, cursor)
          /\ responses' = Append(responses, resp)
          /\ rows' = AppendRows(rows, resp.results)
          /\ IF resp.has_more
             THEN cursor' = NextCursor(resp) /\ fpc' = fpc
             ELSE cursor' = cursor /\ fpc' = "done"
    /\ UNCHANGED <<source, notFetch>>

NextFetch == FetchPage

SpecFetch == InitFetch /\ [][NextFetch]_vars /\ WF_vars(FetchPage)

\* ------------------------------------------------------------------------
\* The session: the extract button of a name
\* ------------------------------------------------------------------------
Init ==
    /\ analysis = <<>>
    /\ pc = "idle"
    /\ name = <<>>
    /\ modelOk = FALSE
    /\ cachedAtClick = FALSE
    /\ ontology = EmptyMapping
    /\ events = {}
    /\ report = "none"
    /\ clickCalls = 0
    /\ displayed = NoEntry
    /\ completed = {}
    /\ ParseIdle /\ StreamIdle /\ GroupIdle /\ PlotIdle /\ FetchIdle

\* the button of a name is pressed while no model is configured
ClickNoModel ==
    /\ pc = "idle"
    /\ \E nm \in SessionNames :
        /\ name' = nm
        /\ cachedAtClick' = (nm \in completed)
    /\ modelOk' = FALSE
    /\ report' = "no_model"
    /\ events' = {}
    /\ clickCalls' = 0
    /\ displayed' = NoEntry
    /\ UNCHANGED <<analysis, pc, ontology, completed, notSession>>

\* elif name in st.session_state.analysis: show the cached entry
ClickCached ==
    /\ pc = "idle"
    /\ \E nm \in SessionNames :
        /\ CacheHit(analysis, nm)
        /\ name' = nm
        /\ cachedAtClick' = (nm \in completed)
        /\ displayed' = analysis[nm]
        /\ events' =
             IF Truthy(Get(analysis[nm].ontology, KeyRelationships))
             THEN {"table", "plot"}
                    \cup (IF plot_ontology_3d(RelsOf(analysis[nm].ontology)).chart
                          THEN {"chart"} ELSE {})
             ELSE {}
    /\ modelOk' = TRUE
    /\ report' = "cached"
    /\ clickCalls' = 0
    /\ UNCHANGED <<analysis, pc, ontology, completed, notSession>>

\* else: analyze_and_render_streaming(name, all_text, model)
ClickAnalyze ==
    /\ pc = "idle"
    /\ \E nm \in SessionNames :
        /\ ~CacheHit(analysis, nm)
        /\ name' = nm
        /\ cachedAtClick' = (nm \in completed)
    /\ modelOk' = TRUE
    /\ report' = "running"
    /\ events' = {}
    /\ clickCalls' = 0
    /\ displayed' = NoEntry
    /\ pc' = "ontology"
    /\ UNCHANGED <<analysis, ontology, completed, notSession>>

\* the ontology stream, the extraction, the table and the graph
AnalyzeOntology ==
    /\ pc = "ontology"
    /\ \E r \in OntologyResponses :
        LET raw == stream_generate_text(r.frags, r.ending)
            onto == parse_json_safely(raw)
            seen == {"ontology_request"} \cup (IF r.ending = "error" THEN {"stream_error"} ELSE {})
        IN /\ clickCalls' = clickCalls + 1
           /\ ontology' = onto
           /\ IF ~Truthy(onto)
              THEN /\ events' = seen \cup {"parse_error"}
                   /\ report' = "parse_error"
                   /\ pc' = "idle"
              ELSE IF onto.kind # "obj"
              THEN /\ events' = seen
                   /\ report' = "exception"
                   /\ pc' = "idle"
              ELSE /\ events' = seen \cup
                        (IF Truthy(Get(onto, KeyRelationships))
                         THEN {"table", "plot"}
                                \cup (IF plot_ontology_3d(RelsOf(onto)).chart
                                      THEN {"chart"} ELSE {})
                         ELSE {})
                   /\ report' = report
                   /\ pc' = "summary"
    /\ UNCHANGED <<analysis, name, modelOk, cachedAtClick, displayed, completed, notSession>>

\* the summary stream, the final prompt and the write of the cache
AnalyzeSummary ==
    /\ pc = "summary"
    /\ \E r \in SummaryResponses :
        LET summary == Strip(stream_generate_text(r.frags, r.ending))
            entry == [ontology |-> ontology,
                      summary |-> summary,
                      final_prompt |-> build_final_prompt(name, ontology, summary)]
        IN /\ clickCalls' = clickCalls + 1
           /\ events' = events \cup {"summary_request", "prompt", "cache_write"}
                          \cup (IF r.ending = "error" THEN {"stream_error"} ELSE {})
           /\ displayed' = entry
           /\ analysis' = CacheWrite(analysis, name, entry)
    /\ completed' = completed \cup {name}
    /\ report' = "analyzed"
    /\ pc' = "idle"
    /\ UNCHANGED <<name, modelOk, cachedAtClick, ontology, notSession>>

Next == ClickNoModel \/ ClickCached \/ ClickAnalyze \/ AnalyzeOntology \/ AnalyzeSummary

Spec == Init /\ [][Next]_vars

\* ------------------------------------------------------------------------
\* Properties
\* ------------------------------------------------------------------------

\* C1: once an analysis of a name has completed and written its cache entry,
\* every later press of that name's button makes no completion call, issues
\* neither request, and (a model being configured) shows the cached entry.
C1_CacheHit ==
    cachedAtClick =>
        /\ clickCalls = 0
        /\ pc = "idle"
        /\ events \cap {"ontology_request", "summary_request"} = {}
        /\ modelOk => /\ report = "cached"
                      /\ name \in DOMAIN analysis
                      /\ displayed = analysis[name]

C1_Witness ==
    /\ cachedAtClick
    /\ report = "cached"
    /\ "chart" \in events
    /\ Cardinality(completed) = 2

\* a failure of the running or last analysis: a stream raised, or the
\* ontology text did not parse
AnalysisFailed == events \cap {"stream_error", "parse_error"} # {}

\* C2: when an analysis fails at any step, the cache holds no entry for its
\* name after analyze_and_render_streaming has returned.
C2_NoCacheWriteOnFailure ==
    (pc = "idle" /\ report \in {"analyzed", "parse_error", "exception"} /\ AnalysisFailed)
        => name \notin DOMAIN analysis

HasBraces(t) == (\E i \in 1..Len(t) : t[i] = "{") /\ (\E i \in 1..Len(t) : t[i] = "}")

\* C3: parse_json_safely returns a parsed mapping or the empty mapping for
\* every input, and the empty mapping for an input that is empty or has no
\* brace pair, valid JSON of another type included.
C3_MappingOrEmpty ==
    ppc = "done" =>
        /\ presult.kind = "obj"
        /\ (ptext = <<>> \/ ~HasBraces(ptext)) => presult = EmptyMapping

\* C4: when the fragment source fails, stream_generate_text keeps the text
\* accumulated so far, and what it hands to its caller differs from what the
\* run over the same fragments that ends normally hands to its caller.
C4_FailureDistinguishable ==
    (spc = "returned" /\ sends = "error") =>
        /\ buffer = StreamBuffer(<<>>, SubSeq(sfrags, 1, sidx))
        /\ sret # stream_generate_text(SubSeq(sfrags, 1, sidx), "ok")

\* the corpus of a name by the reference grouping: the non-empty texts of its
\* records, in input order, joined by two newlines
RECURSIVE RefCorpus(_, _)
RefCorpus(df, n) ==
    IF df = <<>> THEN <<>>
    ELSE LET before == RefCorpus(SubSeq(df, 1, Len(df) - 1), n)
             last == df[Len(df)]
         IN IF last.name = n /\ last.text # <<>>
            THEN (IF before = <<>> THEN last.text ELSE before \o <<NL, NL>> \o last.text)
            ELSE before

FirstIndex(df, n) == CHOOSE i \in 1..Len(df) : df[i].name = n /\ \A j \in 1..(i - 1) : df[j].name # n

\* one corpus per distinct identifier, each with the reference text, and the
\* per-name loop visits them in the order of grouped
OneCorpusEach ==
    /\ \A i \in 1..Len(df_rows) : \E k \in 1..Len(grouped) : grouped[k].name = df_rows[i].name
    /\ \A k \in 1..Len(grouped) : \E i \in 1..Len(df_rows) : grouped[k].name = df_rows[i].name
    /\ \A k, l \in 1..Len(grouped) : grouped[k].name = grouped[l].name => k = l
    /\ \A k \in 1..Len(grouped) : grouped[k].text = RefCorpus(df_rows, grouped[k].name)
    /\ expanders = grouped

\* C5 as stated: one corpus per distinct identifier, in the first-seen order
\* of the identifiers, each the double-newline join of the non-empty texts.
C5_FirstSeenOrder ==
    apc = "done" /\ df_rows # <<>> =>
        /\ OneCorpusEach
        /\ \A k, l \in 1..Len(grouped) :
              k < l => FirstIndex(df_rows, grouped[k].name) < FirstIndex(df_rows, grouped[l].name)

\* C5 as amended: one corpus per distinct identifier, in the ascending order
\* of the identifiers, each the double-newline join of the non-empty texts of
\* the identifier in input order.
C5_AscendingOrder ==
    apc = "done" /\ df_rows # <<>> =>
        /\ OneCorpusEach
        /\ \A k, l \in 1..Len(grouped) :
              k < l => StrLess(grouped[k].name, grouped[l].name)

C5_Witness ==
    /\ apc = "done"
    /\ Len(df_rows) = 3
    /\ df_rows[1].name = <<"b">>
    /\ df_rows[2] = [name |-> <<"a">>, text |-> <<>>]
    /\ df_rows[3].name = <<"b">>
    /\ Len(grouped) = 2
    /\ grouped[2].text = <<"x", NL, NL, "a">>

\* a relationship is valid when source and target are non-empty after trimming
ValidRel(rel) == Strip(rel.source) # <<>> /\ Strip(rel.target) # <<>>
RefNodes(rels) ==
    UNION {{Strip(rels[i].source), Strip(rels[i].target)} :
              i \in {j \in 1..Len(rels) : ValidRel(rels[j])}}

\* C6: a relationship whose source or target is empty or whitespace-only adds
\* no node and no edge, and the nodes of the graph are the trimmed sources and
\* targets of the valid relationships.
C6_ValidityFilter ==
    kpc = "done" =>
        /\ G_nodes = RefNodes(edges)
        /\ \A e \in G_edges : e.ends \subseteq RefNodes(edges)

\* C7: when the node set built from the relationship list is empty,
\* plot_ontology_3d reports that there is nothing to render and neither calls
\* the layout nor renders a chart; the layout is called for a non-empty node
\* set only.
C7_NothingToRender ==
    kpc = "done" =>
        /\ G_nodes = {} => (info /\ layoutCalls = 0 /\ ~charted)
        /\ layoutCalls > 0 => G_nodes # {}

\* the rows of the pages received, page by page and row by row
RECURSIVE RefRows(_)
RefRows(resps) ==
    IF resps = <<>> THEN <<>>
    ELSE LET last == resps[Len(resps)]
         IN RefRows(SubSeq(resps, 1, Len(resps) - 1))
              \o [i \in 1..Len(last.results) |-> ExtractRow(last.results[i])]

\* the source reports no further pages after finitely many requests
RECURSIVE ChainEnds(_, _)
ChainEnds(cur, fuel) ==
    \/ ~source[cur].has_more
    \/ fuel > 0 /\ ChainEnds(source[cur].next_cursor, fuel - 1)

FetchSafe ==
    /\ Len(requests) = Len(responses)
    /\ requests # <<>> => requests[1] = 0
    /\ \A i \in 2..Len(requests) : requests[i] = responses[i - 1].next_cursor
    /\ \A i \in 1..Len(responses) : responses[i] = source[requests[i]]
    /\ \A i \in 1..(Len(responses) - 1) : responses[i].has_more
    /\ fpc = "done" <=> (responses # <<>> /\ ~responses[Len(responses)].has_more)
    /\ rows = RefRows(responses)

RECURSIVE RefConcat(_)
RefConcat(frs) ==
    IF frs = <<>> THEN <<>>
    ELSE (IF Head(frs).has THEN Head(frs).text ELSE <<>>) \o RefConcat(Tail(frs))

IsProperPrefix(x, y) == Len(x) < Len(y) /\ SubSeq(y, 1, Len(x)) = x

TextFragments(frs) == {i \in 1..Len(frs) : frs[i].has /\ frs[i].text # <<>>}

\* C9: a stream that ends without error returns the concatenation of the
\* fragments' texts in arrival order, fragments without text being passed
\* over; every value shown is a prefix of the next; the display holds the
\* accumulator after every fragment that carried text.
C9_Accumulator ==
    /\ (spc = "returned" /\ sends = "ok") =>
          (sidx = Len(sfrags) /\ sret = RefConcat(sfrags))
    /\ \A i \in 1..(Len(shown) - 1) : IsProperPrefix(shown[i], shown[i + 1])
    /\ spc \in {"loop", "returned"} =>
          /\ Len(shown) = Cardinality(TextFragments(SubSeq(sfrags, 1, sidx)))
          /\ buffer = RefConcat(SubSeq(sfrags, 1, sidx))
          /\ shown = <<>> => buffer = <<>>
          /\ shown # <<>> => shown[Len(shown)] = buffer
          /\ (shown # <<>> /\ title_ph # "error") => code_ph = Code(buffer)

C9_Witness ==
    /\ spc = "returned"
    /\ sends = "ok"
    /\ sfrags = <<Frag(<<"a">>), NoText, Frag(<<"b", "1">>)>>
    /\ sret = <<"a", "b", "1">>
    /\ shown = <<(<<"a">>), (<<"a", "b", "1">>)>>

\* C10: for a well-formed JSON object j, the extractor applied to j in a json
\* fence, with or without prose around it, returns what json.loads(j)
\* returns, also when a string value of j holds backticks or braces.
C10_FenceRoundTrip ==
    \A pre \in Prose, post \in Prose, j \in JsonObjects :
        (ppc = "done" /\ ptext = wrap_in_fence(pre, j, post))
            => (json_loads(j).ok /\ presult = json_loads(j).val)

\* what follows the extraction in analyze_and_render_streaming
AfterExtraction == {"table", "plot", "chart", "summary_request", "prompt", "cache_write"}

\* C11: when the extraction of the ontology text yields the empty mapping the
\* analysis reports the parse failure and stops before the graph, the summary
\* request and the prompt; the parse failure is reported for a malformed
\* output only, never for a failure of the ontology stream.
C11_MalformedOutputAbort ==
    /\ (pc = "idle" /\ report \in {"parse_error", "exception"} /\ ontology = EmptyMapping)
          => (report = "parse_error" /\ "parse_error" \in events)
    /\ "parse_error" \in events =>
          /\ pc = "idle"
          /\ events \cap AfterExtraction = {}
          /\ name \notin DOMAIN analysis
          /\ "stream_error" \notin events

====
